---------------------------- MODULE Spec2Model ----------------------------
(***************************************************************************)
(* Model of the component reconciliation engine of the Figma MCP server    *)
(* (src/src/server/mcp-server.ts): createComponentMappings, the name       *)
(* similarity it is built on, the consistency report and the scan of the   *)
(* code directory.  Each part has its own specification; the variables of  *)
(* the other parts stay idle in it.                                        *)
(*                                                                         *)
(* A name is a sequence of one-character strings.  A similarity score is   *)
(* the exact quotient num/den kept as a pair; den = 0 stands for the NaN   *)
(* that 0/0 evaluates to.                                                  *)
(***************************************************************************)
EXTENDS Integers, Sequences, FiniteSets, TLC

VARIABLES
    figmaComponents,   \* Object.entries(figmaComponents): <<[id, name, description]>>
    codeComponents,    \* the scanned code components: <<[name, path]>>
    idx,               \* position of the forEach over the design components
    pc,                \* "loop" while the forEach runs, "done" after the return
    exact_matches,     \* mappings.exact_matches
    similar_matches,   \* mappings.similar_matches
    missing_in_code,   \* mappings.missing_in_code
    missing_in_figma,  \* mappings.missing_in_figma
    simName1,          \* calculateNameSimilarity: the argument name1
    simName2,          \* calculateNameSimilarity: the argument name2
    lcs,               \* calculateNameSimilarity: const lcs
    similarity,        \* calculateNameSimilarity: the value returned
    simPc,             \* "idle", "call", "done"
    check_components,  \* analyzeDesignCodeConsistency: argument
    check_styles,      \* analyzeDesignCodeConsistency: argument
    componentsAnalysis,\* what checkComponentConsistency returned
    stylesAnalysis,    \* what checkStyleConsistency returned
    consistencyReport, \* [consistency_score, issues, recommendations, components, styles]
    reportEnv,         \* file_key, code_directory and what surrounds the call
    reportPc,          \* "idle", "components", "styles", "score", "recommend", "done"
    round,             \* 0 idle; 1, 2: which of two calls of the mapping runs
    firstRun,          \* the inputs and the outcome of the first of the two calls
    scanDirectory,     \* scanCodeComponents: what the argument directory names
    scanFramework,     \* scanCodeComponents: the argument framework
    files,             \* scanCodeComponents: const files
    fileIdx,           \* position of files.forEach
    components,        \* scanCodeComponents: const components
    scanPc,            \* "idle", "exists", "list", "read", "returned"
    request,           \* per request: the design response and the scanned code list
    runPc,             \* per request: "start", "fetch", "json", "running", "returned"
    result,            \* per request: <<mappings>> once returned, <<>> before
    alone,             \* per request: <<mappings>> of the call made alone
    active             \* the request whose synchronous code runs, 0 for none

mapVars == <<figmaComponents, codeComponents, idx, pc,
             exact_matches, similar_matches, missing_in_code, missing_in_figma>>

simVars == <<simName1, simName2, lcs, similarity, simPc>>

reportVars == <<check_components, check_styles, componentsAnalysis,
                stylesAnalysis, consistencyReport, reportEnv, reportPc>>

caseVars == <<round, firstRun>>

scanVars == <<scanDirectory, scanFramework, files, fileIdx, components, scanPc>>

(* What each part leaves alone *)
requestVars == <<request, runPc, result, alone, active>>

notMapVars == <<simVars, reportVars, caseVars, scanVars, requestVars>>
notSimVars == <<mapVars, reportVars, caseVars, scanVars, requestVars>>
notReportVars == <<mapVars, simVars, caseVars, scanVars, requestVars>>
notCaseVars == <<simVars, reportVars, scanVars, requestVars>>
notScanVars == <<mapVars, simVars, reportVars, caseVars, requestVars>>
notRequestVars == <<simVars, reportVars, caseVars, scanVars>>

vars == <<mapVars, notMapVars>>

-----------------------------------------------------------------------------
(* Bounds of the model *)

MaxDesign == 2
MaxCode == 4
MaxNameLen == 3
MaxIssues == 6

(* slice(0, 3): at most three suggestions are kept *)
MaxSuggestions == 3

-----------------------------------------------------------------------------
(* Strings *)

UpperChars == <<"A","B","C","D","E","F","G","H","I","J","K","L","M",
                "N","O","P","Q","R","S","T","U","V","W","X","Y","Z">>
LowerChars == <<"a","b","c","d","e","f","g","h","i","j","k","l","m",
                "n","o","p","q","r","s","t","u","v","w","x","y","z">>

(* The lower-case form of every letter; other characters map to themselves *)
LowerCaseOf ==
    [c \in {UpperChars[i] : i \in 1..Len(UpperChars)} |->
        LowerChars[CHOOSE i \in 1..Len(UpperChars) : UpperChars[i] = c]]

LowerChar(c) == IF c \in DOMAIN LowerCaseOf THEN LowerCaseOf[c] ELSE c

(* String.prototype.toLowerCase *)
toLowerCase(s) == [i \in 1..Len(s) |-> LowerChar(s[i])]

Max(a, b) == IF a >= b THEN a ELSE b
Min(a, b) == IF a <= b THEN a ELSE b

-----------------------------------------------------------------------------
(* Name similarity *)

(* One row of the dynamic-programming matrix: row[j+1] = matrix[i][j],     *)
(* computed left to right from the row above (prev) and the character      *)
(* c = str1[i-1].                                                          *)
RECURSIVE MatrixRowAboveOnly(_, _, _, _)
MatrixRowAboveOnly(prev, c, str2, acc) ==
    LET j == Len(acc)
    IN  IF j > Len(str2) THEN acc
        ELSE MatrixRowAboveOnly(prev, c, str2,
                 Append(acc, IF c = str2[j] THEN prev[j] + 1 ELSE prev[j + 1]))

RECURSIVE MatrixRow(_, _, _, _)
MatrixRow(prev, c, str2, acc) ==
    LET j == Len(acc)
    IN  IF j > Len(str2) THEN acc
        ELSE MatrixRow(prev, c, str2,
                 Append(acc, IF c = str2[j]
                             THEN prev[j] + 1
                             ELSE Max(prev[j + 1], acc[j])))

RECURSIVE MatrixRows(_, _, _, _)
MatrixRows(str1, str2, i, prev) ==
    IF i > Len(str1) THEN prev
    ELSE MatrixRows(str1, str2, i + 1, MatrixRow(prev, str1[i], str2, <<0>>))

longestCommonSubsequence(str1, str2) ==
    MatrixRows(str1, str2, 1, [j \in 1..(Len(str2) + 1) |-> 0])[Len(str2) + 1]

SimilarityOverFirstLength(n1, n2) ==
    [num |-> 2 * longestCommonSubsequence(n1, n2), den |-> 2 * Len(n1)]

SimilarityWithoutDoubling(n1, n2) ==
    [num |-> longestCommonSubsequence(n1, n2), den |-> Len(n1) + Len(n2)]

calculateNameSimilarity(name1, name2) ==
    [num |-> 2 * longestCommonSubsequence(name1, name2),
     den |-> Len(name1) + Len(name2)]

(* Comparisons of scores, as the floating-point quotients compare; every   *)
(* comparison with NaN is false.                                           *)
IsNaN(s) == s.den = 0
AboveHalf(s) == ~IsNaN(s) /\ 2 * s.num > s.den
SimLess(s, t) == ~IsNaN(s) /\ ~IsNaN(t) /\ s.num * t.den < t.num * s.den


-----------------------------------------------------------------------------
(* createComponentMappings *)

(* codeComponents.find(cc => cc.name.toLowerCase() === figmaName): the     *)
(* position of the first code component found, 0 for undefined.            *)
FindLastMatch(figmaName) ==
    LET S == {j \in 1..Len(codeComponents) :
                 toLowerCase(codeComponents[j].name) = figmaName}
    IN  IF S = {} THEN 0 ELSE CHOOSE j \in S : \A k \in S : j >= k

FindCaseSensitive(figmaName) ==
    LET S == {j \in 1..Len(codeComponents) : codeComponents[j].name = figmaName}
    IN  IF S = {} THEN 0 ELSE CHOOSE j \in S : \A k \in S : j <= k

FindExactMatch(figmaName) ==
    LET S == {j \in 1..Len(codeComponents) :
                 toLowerCase(codeComponents[j].name) = figmaName}
    IN  IF S = {} THEN 0 ELSE CHOOSE j \in S : \A k \in S : j <= k

AlwaysTakesSimilarityPath(figmaName) == TRUE

(* The else of "if (exactMatch)" *)
TakesSimilarityPath(figmaName) == FindExactMatch(figmaName) = 0

(* .map(cc => ({component: cc, similarity: ...})) *)
ScoreAll(figmaName) ==
    [j \in 1..Len(codeComponents) |->
        [component  |-> codeComponents[j],
         similarity |-> calculateNameSimilarity(
                            figmaName, toLowerCase(codeComponents[j].name))]]

(* .filter(match => match.similarity > 0.5) *)
AtLeastHalf(match) ==
    ~IsNaN(match.similarity) /\ 2 * match.similarity.num >= match.similarity.den

PassesThreshold(match) == AboveHalf(match.similarity)

(* .sort((a, b) => b.similarity - a.similarity): Array.prototype.sort is   *)
(* stable, so an element goes behind every element that does not compare   *)
(* after it.                                                               *)
RECURSIVE InsertBeforeTies(_, _)
InsertBeforeTies(sorted, m) ==
    IF sorted = <<>> THEN <<m>>
    ELSE IF ~SimLess(m.similarity, Head(sorted).similarity)
         THEN <<m>> \o sorted
         ELSE <<Head(sorted)>> \o InsertBeforeTies(Tail(sorted), m)

RECURSIVE InsertByScore(_, _)
InsertByScore(sorted, m) ==
    IF sorted = <<>> THEN <<m>>
    ELSE IF SimLess(Head(sorted).similarity, m.similarity)
         THEN <<m>> \o sorted
         ELSE <<Head(sorted)>> \o InsertByScore(Tail(sorted), m)

RECURSIVE SortFrom(_, _)
SortFrom(rest, sorted) ==
    IF rest = <<>> THEN sorted
    ELSE SortFrom(Tail(rest), InsertByScore(sorted, Head(rest)))

SortByScore(matches) == SortFrom(matches, <<>>)

(* .slice(0, 3) *)
TopSuggestions(matches) == SubSeq(matches, 1, Min(MaxSuggestions, Len(matches)))

(* const similarMatches = codeComponents.map(...).filter(...).sort(...) *)
SimilarMatches(figmaName) ==
    SortByScore(SelectSeq(ScoreAll(figmaName), PassesThreshold))

(* figmaComponent.description || '': description is <<>> when the field is *)
(* absent and <<text>> when it is present.                                 *)
DescriptionOrEmpty(description) ==
    IF description = <<>> THEN ""
    ELSE IF description[1] = "" THEN "" ELSE description[1]

(* What one design component adds to each of the three groups *)
ExactEntries(d) ==
    LET figmaName == toLowerCase(d.name)
        j == FindExactMatch(figmaName)
    IN  IF j # 0
        THEN <<[figma_id       |-> d.id,
                figma_name     |-> d.name,
                code_component |-> codeComponents[j],
                confidence     |-> 1]>>
        ELSE <<>>

SimilarEntriesNoElse(d) ==
    LET similarMatches == SimilarMatches(toLowerCase(d.name))
    IN  IF Len(similarMatches) > 0
        THEN <<[figma_id    |-> d.id,
                figma_name  |-> d.name,
                suggestions |-> TopSuggestions(similarMatches)]>>
        ELSE <<>>

SimilarEntriesWhenEmpty(d) ==
    LET figmaName == toLowerCase(d.name)
        similarMatches == SimilarMatches(figmaName)
    IN  IF TakesSimilarityPath(figmaName) /\ Len(similarMatches) >= 0
        THEN <<[figma_id    |-> d.id,
                figma_name  |-> d.name,
                suggestions |-> TopSuggestions(similarMatches)]>>
        ELSE <<>>

SimilarEntries(d) ==
    LET figmaName == toLowerCase(d.name)
        similarMatches == SimilarMatches(figmaName)
    IN  IF TakesSimilarityPath(figmaName) /\ Len(similarMatches) > 0
        THEN <<[figma_id    |-> d.id,
                figma_name  |-> d.name,
                suggestions |-> TopSuggestions(similarMatches)]>>
        ELSE <<>>

MissingInCodeEntries(d) ==
    LET figmaName == toLowerCase(d.name)
        similarMatches == SimilarMatches(figmaName)
    IN  IF TakesSimilarityPath(figmaName) /\ ~(Len(similarMatches) > 0)
        THEN <<[figma_id    |-> d.id,
                figma_name  |-> d.name,
                description |-> DescriptionOrEmpty(d.description)]>>
        ELSE <<>>

Range(s) == {s[i] : i \in 1..Len(s)}

(* new Set([...exact_matches names, ...suggestion names]) *)
mappedExactOnly ==
    {m.code_component.name : m \in Range(exact_matches)}

mappedCodeComponents ==
    {m.code_component.name : m \in Range(exact_matches)}
    \cup UNION {{s.component.name : s \in Range(m.suggestions)} :
                   m \in Range(similar_matches)}

IsUnmappedByPath(cc) ==
    cc.path \notin
        ({m.code_component.path : m \in Range(exact_matches)}
         \cup UNION {{s.component.path : s \in Range(m.suggestions)} :
                        m \in Range(similar_matches)})

IsUnmapped(cc) == cc.name \notin mappedCodeComponents

(* codeComponents.filter(cc => !mappedCodeComponents.has(cc.name)).map(...) *)
MissingInFigma ==
    LET kept == SelectSeq(codeComponents, IsUnmapped)
    IN  [k \in 1..Len(kept) |->
            [name      |-> kept[k].name,
             path      |-> kept[k].path,
             framework |-> kept[k].framework]]

-----------------------------------------------------------------------------
(* Inputs *)

SeqsUpTo(S, n) == UNION {[1..k -> S] : k \in 0..n}

DesignNames == {<<"a", "b">>, <<"A">>}
Descriptions == {<<>>, <<"d">>}
CodeNames == {<<"a">>, <<"A">>, <<"a", "b">>, <<"a", "b", "b">>}

(* The entries of a design-component object: the key is the id *)
DesignEntries(fields) ==
    [i \in 1..Len(fields) |->
        [id |-> i, name |-> fields[i][1], description |-> fields[i][2]]]

(* Scanned code components: one per file, the path is the key *)
CodeRecords(names) ==
    [j \in 1..Len(names) |->
        [name |-> names[j], path |-> j, framework |-> "react"]]

(* The usage example of the README; the remote API gives a component that  *)
(* has no description the empty text.                                      *)
ReadmeDesign ==
    DesignEntries(<<
        <<<<"B","u","t","t","o","n">>, <<"">>>>,
        <<<<"C","a","r","d">>, <<"">>>>,
        <<<<"M","o","d","a","l">>, <<"">>>>,
        <<<<"H","e","a","d","e","r","N","a","v">>, <<"">>>>,
        <<<<"P","r","o","d","u","c","t","G","r","i","d">>, <<"">>>> >>)

ReadmeCode ==
    CodeRecords(<<
        <<"B","u","t","t","o","n">>,
        <<"C","a","r","d">>,
        <<"M","o","d","a","l">>,
        <<"N","a","v","b","a","r">> >>)

-----------------------------------------------------------------------------
(* The state machine *)

(* The parts that a specification does not run *)
SimIdle ==
    /\ simName1 = <<>>
    /\ simName2 = <<>>
    /\ lcs = 0
    /\ similarity = [num |-> 0, den |-> 1]
    /\ simPc = "idle"

MapIdle ==
    /\ figmaComponents = <<>>
    /\ codeComponents = <<>>
    /\ idx = 1
    /\ pc = "idle"
    /\ exact_matches = <<>>
    /\ similar_matches = <<>>
    /\ missing_in_code = <<>>
    /\ missing_in_figma = <<>>

ReportIdle ==
    /\ check_components = FALSE
    /\ check_styles = FALSE
    /\ componentsAnalysis = [issues |-> <<>>]
    /\ stylesAnalysis = [issues |-> <<>>]
    /\ consistencyReport = [consistency_score |-> 0, issues |-> <<>>,
                            recommendations |-> <<>>,
                            components |-> <<>>, styles |-> <<>>]
    /\ reportEnv = [file_key |-> "", code_directory |-> "missing",
                    token |-> FALSE, api |-> "error"]
    /\ reportPc = "idle"

CaseIdle ==
    /\ round = 0
    /\ firstRun = [figmaComponents |-> <<>>, codeComponents |-> <<>>,
                   exact |-> <<>>, similar |-> <<>>, missing |-> <<>>]

ScanIdle ==
    /\ scanDirectory = [kind |-> "missing"]
    /\ scanFramework = ""
    /\ files = <<>>
    /\ fileIdx = 1
    /\ components = <<>>
    /\ scanPc = "idle"

RequestIdle ==
    /\ request = <<>>
    /\ runPc = <<>>
    /\ result = <<>>
    /\ alone = <<>>
    /\ active = 0

NotMapIdle == SimIdle /\ ReportIdle /\ CaseIdle /\ ScanIdle /\ RequestIdle
NotSimIdle == MapIdle /\ ReportIdle /\ CaseIdle /\ ScanIdle /\ RequestIdle
NotReportIdle == MapIdle /\ SimIdle /\ CaseIdle /\ ScanIdle /\ RequestIdle
NotCaseIdle == SimIdle /\ ReportIdle /\ ScanIdle /\ RequestIdle
NotScanIdle == MapIdle /\ SimIdle /\ ReportIdle /\ CaseIdle /\ RequestIdle
NotRequestIdle == SimIdle /\ ReportIdle /\ CaseIdle /\ ScanIdle

Init ==
    /\ NotMapIdle
    /\ \/ /\ figmaComponents \in
                {DesignEntries(f) : f \in SeqsUpTo(DesignNames \X Descriptions, MaxDesign)}
          /\ codeComponents \in {CodeRecords(n) : n \in SeqsUpTo(CodeNames, MaxCode)}
       \/ /\ figmaComponents = ReadmeDesign
          /\ codeComponents = ReadmeCode
    /\ idx = 1
    /\ pc = "loop"
    /\ exact_matches = <<>>
    /\ similar_matches = <<>>
    /\ missing_in_code = <<>>
    /\ missing_in_figma = <<>>

(* The list codeComponents as sort() would leave it if it were applied to *)
(* the list itself                                                         *)
SortedInPlace(d) ==
    LET sorted == SortByScore(ScoreAll(toLowerCase(d.name)))
    IN  IF TakesSimilarityPath(toLowerCase(d.name))
        THEN [j \in 1..Len(sorted) |-> sorted[j].component]
        ELSE codeComponents

(* The list codeComponents after the callback for design component d:     *)
(* find() reads it, map() and filter() return new arrays, and sort() and   *)
(* slice() are applied to those                                            *)
CodeComponentsAfter(d) == codeComponents

(* One call of the forEach callback *)
ForEachDesign ==
    /\ pc = "loop"
    /\ idx <= Len(figmaComponents)
    /\ exact_matches' = exact_matches \o ExactEntries(figmaComponents[idx])
    /\ similar_matches' = similar_matches \o SimilarEntries(figmaComponents[idx])
    /\ missing_in_code' = missing_in_code \o MissingInCodeEntries(figmaComponents[idx])
    /\ codeComponents' = CodeComponentsAfter(figmaComponents[idx])
    /\ idx' = idx + 1
    /\ UNCHANGED <<figmaComponents, pc, missing_in_figma>>
    /\ UNCHANGED notMapVars

(* After the loop: missing_in_figma is computed and the mappings returned *)
FindMissingInFigma ==
    /\ pc = "loop"
    /\ idx > Len(figmaComponents)
    /\ missing_in_figma' = MissingInFigma
    /\ pc' = "done"
    /\ UNCHANGED <<figmaComponents, codeComponents, idx,
                   exact_matches, similar_matches, missing_in_code>>
    /\ UNCHANGED notMapVars

Next == ForEachDesign \/ FindMissingInFigma

Spec == Init /\ [][Next]_vars

Done == pc = "done"

-----------------------------------------------------------------------------
(* Vocabulary of the properties *)

Designs == 1..Len(figmaComponents)
Codes == 1..Len(codeComponents)

(* The entries of a group that belong to design component i *)
EntriesFor(group, i) ==
    {k \in 1..Len(group) : group[k].figma_id = figmaComponents[i].id}

(* Code component j has the lower-cased name of design component i *)
SameLowerName(i, j) ==
    toLowerCase(codeComponents[j].name) = toLowerCase(figmaComponents[i].name)

HasExact(i) == \E j \in Codes : SameLowerName(i, j)

(* The similarity of design component i and every code component *)
Scores(i) ==
    [j \in Codes |->
        calculateNameSimilarity(toLowerCase(figmaComponents[i].name),
                                toLowerCase(codeComponents[j].name))]

(* The code components that score strictly above 0.5 *)
AboveThreshold(score) == {j \in DOMAIN score : 2 * score[j].num > score[j].den}

Candidates(i) == AboveThreshold(Scores(i))

(* Code component j ranks before code component k: a higher score, or the  *)
(* same score and an earlier place in the list.                            *)
RanksBefore(score, j, k) ==
    \/ score[j].num * score[k].den > score[k].num * score[j].den
    \/ /\ score[j].num * score[k].den = score[k].num * score[j].den
       /\ j < k

(* The code component of a suggestion, by its path *)
PlaceOf(suggestion) == suggestion.component.path

NamesOf(records) == {r.name : r \in Range(records)}

-----------------------------------------------------------------------------
(* C1: when createComponentMappings has returned, every design component   *)
(* has exactly one entry over exact_matches, similar_matches and           *)
(* missing_in_code together, so the three sizes sum to the number of       *)
(* design components.                                                      *)
C1_Partition ==
    Done =>
        /\ \A i \in Designs :
               Cardinality(EntriesFor(exact_matches, i))
                 + Cardinality(EntriesFor(similar_matches, i))
                 + Cardinality(EntriesFor(missing_in_code, i)) = 1
        /\ Len(exact_matches) + Len(similar_matches) + Len(missing_in_code)
               = Len(figmaComponents)

C1_Witness ==
    /\ Done
    /\ Len(figmaComponents) = 2
    /\ Len(exact_matches) = 1
    /\ Len(similar_matches) = 1
    /\ \E j \in Codes : HasExact(1) /\ j \in Candidates(2)

(* C2: no code component that is the code_component of an exact match or   *)
(* a suggestion of a similar match is listed in missing_in_figma.          *)
C2_MappedNotMissing ==
    Done =>
        \A m \in Range(missing_in_figma) :
            /\ \A e \in Range(exact_matches) : e.code_component.path # m.path
            /\ \A sm \in Range(similar_matches) :
                   \A s \in Range(sm.suggestions) : PlaceOf(s) # m.path

C2_Witness ==
    /\ Done
    /\ exact_matches # <<>>
    /\ similar_matches # <<>>
    /\ missing_in_figma # <<>>

(* C3: on the README scenario the result is exact matches Button, Card and *)
(* Modal, the similar match HeaderNav with the suggestion Navbar, the      *)
(* missing design ProductGrid and no code component missing in Figma.      *)
C3_ReadmeScenario ==
    (Done /\ figmaComponents = ReadmeDesign /\ codeComponents = ReadmeCode) =>
        /\ {e.figma_name : e \in Range(exact_matches)}
               = {ReadmeDesign[1].name, ReadmeDesign[2].name, ReadmeDesign[3].name}
        /\ \E sm \in Range(similar_matches) :
               /\ sm.figma_name = ReadmeDesign[4].name
               /\ Len(sm.suggestions) = 1
               /\ sm.suggestions[1].component = ReadmeCode[4]
               /\ 2 * sm.suggestions[1].similarity.num > sm.suggestions[1].similarity.den
        /\ {e.figma_name : e \in Range(missing_in_code)} = {ReadmeDesign[5].name}
        /\ missing_in_figma = <<>>

C5_FirstExactMatch ==
    Done =>
        \A i \in Designs :
            \A k \in EntriesFor(exact_matches, i) :
                /\ exact_matches[k].confidence = 1
                /\ \E j \in Codes :
                       /\ SameLowerName(i, j)
                       /\ \A h \in Codes : SameLowerName(i, h) => j <= h
                       /\ exact_matches[k].code_component = codeComponents[j]

C5_Witness ==
    /\ Done
    /\ \E i \in Designs :
           /\ EntriesFor(exact_matches, i) # {}
           /\ \E j \in Codes, h \in Codes :
                  /\ j < h
                  /\ SameLowerName(i, j)
                  /\ SameLowerName(i, h)
                  /\ codeComponents[j].name # codeComponents[h].name

(* The suggestions are the first min(3, |C|) candidates by rank, each      *)
(* with its score.                                                         *)
IsTopRanked(score, suggestions) ==
    LET n == Len(suggestions)
        C == AboveThreshold(score)
    IN  /\ n = Min(3, Cardinality(C))
        /\ \A a \in 1..n :
               /\ PlaceOf(suggestions[a]) \in C
               /\ suggestions[a].component = codeComponents[PlaceOf(suggestions[a])]
               /\ suggestions[a].similarity = score[PlaceOf(suggestions[a])]
        /\ \A a \in 1..n, b \in 1..n :
               a < b => RanksBefore(score, PlaceOf(suggestions[a]), PlaceOf(suggestions[b]))
        /\ \A j \in C \ {PlaceOf(suggestions[a]) : a \in 1..n} :
               \A a \in 1..n : RanksBefore(score, PlaceOf(suggestions[a]), j)

(* C6: a design component without an exact match has a similar_matches     *)
(* entry exactly when some code component scores above 0.5, and its        *)
(* suggestions are the first min(3, |C|) of those by descending score,     *)
(* ties in list order, each with its score.                                *)
C6_TopThreeSuggestions ==
    Done =>
        \A i \in Designs :
            ~HasExact(i) =>
                /\ (EntriesFor(similar_matches, i) # {}) <=> (Candidates(i) # {})
                /\ \A k \in EntriesFor(similar_matches, i) :
                       IsTopRanked(Scores(i), similar_matches[k].suggestions)

C6_Witness ==
    /\ Done
    /\ \E i \in Designs :
           /\ ~HasExact(i)
           /\ Cardinality(Candidates(i)) > 3
           /\ \E k \in EntriesFor(similar_matches, i) :
                  LET s == similar_matches[k].suggestions
                  IN  /\ Len(s) = 3
                      /\ s[1].similarity # s[3].similarity
                      /\ s[2].similarity = s[3].similarity
                      /\ s[2].component.name # s[3].component.name

(* C7: every suggestion scores strictly above 0.5 and strictly below 1.0.  *)
C7_SuggestionScoreRange ==
    Done =>
        \A sm \in Range(similar_matches) :
            \A s \in Range(sm.suggestions) :
                /\ s.similarity.den > 0
                /\ 2 * s.similarity.num > s.similarity.den
                /\ s.similarity.num < s.similarity.den

C7_Witness ==
    /\ Done
    /\ exact_matches # <<>>
    /\ \E sm \in Range(similar_matches) :
           \E s \in Range(sm.suggestions), t \in Range(sm.suggestions) :
               s.similarity # t.similarity

(* C8: a design component is in missing_in_code exactly when it has no     *)
(* exact match and no code component scores above 0.5; the entry carries   *)
(* the description as given, or the empty string when there is none.       *)
C8_MissingInCode ==
    Done =>
        \A i \in Designs :
            /\ (EntriesFor(missing_in_code, i) # {})
                   <=> (~HasExact(i) /\ Candidates(i) = {})
            /\ \A k \in EntriesFor(missing_in_code, i) :
                   missing_in_code[k].description =
                       IF figmaComponents[i].description = <<>>
                       THEN ""
                       ELSE figmaComponents[i].description[1]

C8_Witness ==
    /\ Done
    /\ codeComponents # <<>>
    /\ \E i \in Designs :
           /\ EntriesFor(missing_in_code, i) # {}
           /\ figmaComponents[i].description = <<"d">>
           /\ \E j \in Codes : 2 * Scores(i)[j].num = Scores(i)[j].den

(* The names taken by the exact matches and the retained suggestions *)
TakenNames ==
    {e.code_component.name : e \in Range(exact_matches)}
    \cup {s.component.name :
             s \in UNION {Range(sm.suggestions) : sm \in Range(similar_matches)}}

(* C9: missing_in_figma lists, in list order and once each, the code       *)
(* components whose name is neither that of a chosen exact match nor that  *)
(* of a retained suggestion.                                               *)
C9_MissingInFigma ==
    Done =>
        LET untaken == {j \in Codes : codeComponents[j].name \notin TakenNames}
        IN  /\ Len(missing_in_figma) = Cardinality(untaken)
            /\ {m.path : m \in Range(missing_in_figma)} = untaken
            /\ \A a \in 1..Len(missing_in_figma), b \in 1..Len(missing_in_figma) :
                   a < b => missing_in_figma[a].path < missing_in_figma[b].path
            /\ \A m \in Range(missing_in_figma) :
                   m = [name      |-> codeComponents[m.path].name,
                        path      |-> m.path,
                        framework |-> codeComponents[m.path].framework]

C9_Witness ==
    /\ Done
    /\ Len(missing_in_figma) = 1
    /\ exact_matches # <<>>
    /\ \E sm \in Range(similar_matches) :
           /\ Len(sm.suggestions) = 3
           /\ \E j \in Codes :
                  /\ j \in Candidates(sm.figma_id)
                  /\ j \notin {PlaceOf(s) : s \in Range(sm.suggestions)}
                  /\ codeComponents[j].name \in NamesOf(missing_in_figma)

(* C10: with no design component every code component is in                *)
(* missing_in_figma and the other groups are empty; with no code component *)
(* every design component is in missing_in_code and missing_in_figma is    *)
(* empty.                                                                  *)
C10_DegenerateInput ==
    Done =>
        /\ figmaComponents = <<>> =>
               /\ exact_matches = <<>>
               /\ similar_matches = <<>>
               /\ missing_in_code = <<>>
               /\ Len(missing_in_figma) = Len(codeComponents)
               /\ \A j \in Codes :
                      /\ missing_in_figma[j].name = codeComponents[j].name
                      /\ missing_in_figma[j].path = codeComponents[j].path
        /\ codeComponents = <<>> =>
               /\ exact_matches = <<>>
               /\ similar_matches = <<>>
               /\ missing_in_figma = <<>>
               /\ Len(missing_in_code) = Len(figmaComponents)
               /\ \A i \in Designs :
                      missing_in_code[i].figma_id = figmaComponents[i].id

C10_Witness ==
    /\ Done
    /\ codeComponents = <<>>
    /\ Len(figmaComponents) >= 2
    /\ Len(missing_in_code) = Len(figmaComponents)

-----------------------------------------------------------------------------
(* calculateNameSimilarity on its own *)

SimChars == {"a", "b", "c"}

SimNames == SeqsUpTo(SimChars, MaxNameLen)

SimInit ==
    /\ NotSimIdle
    /\ simName1 \in SimNames
    /\ simName2 \in SimNames
    /\ lcs = 0
    /\ similarity = [num |-> 0, den |-> 1]
    /\ simPc = "call"

(* One call: the subsequence length, then the quotient *)
CallSimilarity ==
    /\ simPc = "call"
    /\ lcs' = longestCommonSubsequence(simName1, simName2)
    /\ similarity' = calculateNameSimilarity(simName1, simName2)
    /\ simPc' = "done"
    /\ UNCHANGED <<simName1, simName2>>
    /\ UNCHANGED notSimVars

SimNext == CallSimilarity

SimSpec == SimInit /\ [][SimNext]_vars

SimDone == simPc = "done"

(* u occurs in t in the same relative order *)
RECURSIVE IsSubsequenceOf(_, _)
IsSubsequenceOf(u, t) ==
    IF u = <<>> THEN TRUE
    ELSE IF t = <<>> THEN FALSE
    ELSE IF Head(u) = Head(t) THEN IsSubsequenceOf(Tail(u), Tail(t))
    ELSE IsSubsequenceOf(u, Tail(t))

(* The characters of s at the positions in I, in order *)
RECURSIVE PickFrom(_, _, _)
PickFrom(s, I, k) ==
    IF k > Len(s) THEN <<>>
    ELSE (IF k \in I THEN <<s[k]>> ELSE <<>>) \o PickFrom(s, I, k + 1)

(* The length of a longest common subsequence, by enumeration *)
ReferenceLcs(s, t) ==
    LET common == {u \in {PickFrom(s, I, 1) : I \in SUBSET (1..Len(s))} :
                      IsSubsequenceOf(u, t)}
    IN  CHOOSE n \in 0..Len(s) :
            /\ \E u \in common : Len(u) = n
            /\ \A u \in common : Len(u) <= n

C12_SelfSimilarityIsOne ==
    (SimDone /\ simName1 = simName2 /\ simName1 # <<>>) =>
        /\ similarity.den > 0
        /\ similarity.num = similarity.den

C12_Witness ==
    /\ SimDone
    /\ simName1 = simName2
    /\ Len(simName1) >= 2
    /\ simName1[1] # simName1[2]

(* C13: the similarity of two empty strings is 0, not NaN.                 *)
C13_EmptyPairIsZero ==
    (SimDone /\ simName1 = <<>> /\ simName2 = <<>>) =>
        /\ ~IsNaN(similarity)
        /\ similarity.num = 0

(* C14: for every pair of strings the score is a number s with             *)
(* 0 <= s <= 1.                                                            *)
C14_ScoreInUnitInterval ==
    SimDone =>
        /\ ~IsNaN(similarity)
        /\ 0 <= similarity.num
        /\ similarity.num <= similarity.den

(* C15: longestCommonSubsequence returns the length of a longest sequence  *)
(* of characters that occurs, in the same relative order, in both strings. *)
C15_LcsIsLongest ==
    SimDone => lcs = ReferenceLcs(simName1, simName2)

C15_Witness ==
    /\ SimDone
    /\ Len(simName1) = 3
    /\ Len(simName2) = 3
    /\ lcs = 2
    /\ simName1[1] # simName2[1]
    /\ simName1[3] # simName2[3]

-----------------------------------------------------------------------------
(* The consistency report: analyzeDesignCodeConsistency *)

(* The issues a sub-analysis returns.  The shipped sub-analyses return     *)
(* none; the report is scored for every number of them up to MaxIssues.    *)
IssuesOf(kind, n) == [k \in 1..n |-> [type |-> kind, severity |-> "medium"]]

ScoreNoFloor(report) == 100 - (Len(report.issues) * 10)

ScorePenaltyFifteen(report) == Max(0, 100 - (Len(report.issues) * 15))

(* const totalIssues = report.issues?.length || 0;                         *)
(* return Math.max(0, 100 - (totalIssues * 10));                           *)
calculateConsistencyScore(report) ==
    LET totalIssues == IF Len(report.issues) = 0 THEN 0 ELSE Len(report.issues)
    IN  Max(0, 100 - (totalIssues * 10))

RecommendCloser ==
    "Consider refactoring components to match Figma designs more closely"
RecommendAddress ==
    "Address the identified consistency issues to improve design-code alignment"
RecommendSync ==
    "Regularly sync design changes with code implementations"

RecommendationsAtSeventy(report) ==
    (IF report.consistency_score <= 70 THEN <<RecommendCloser>> ELSE <<>>)
    \o (IF Len(report.issues) > 0 THEN <<RecommendAddress>> ELSE <<>>)
    \o <<RecommendSync>>

generateConsistencyRecommendations(report) ==
    (IF report.consistency_score < 70 THEN <<RecommendCloser>> ELSE <<>>)
    \o (IF Len(report.issues) > 0 THEN <<RecommendAddress>> ELSE <<>>)
    \o <<RecommendSync>>

(* The arguments file_key and code_directory (whether the directory is    *)
(* there), whether FIGMA_ACCESS_TOKEN is set and whether the remote API    *)
(* answers                                                                 *)
ReportEnvs ==
    [file_key : {"K"}, code_directory : {"missing", "present"},
     token : BOOLEAN, api : {"ok", "error"}]

(* const consistencyReport = {...}: the sections components and styles are *)
(* absent (<<>>) until a sub-analysis is assigned (<<analysis>>)           *)
NewReport ==
    [consistency_score |-> 0, issues |-> <<>>, recommendations |-> <<>>,
     components |-> <<>>, styles |-> <<>>]

ReportInit ==
    /\ NotReportIdle
    /\ check_components \in BOOLEAN
    /\ check_styles \in BOOLEAN
    /\ componentsAnalysis \in {[issues |-> IssuesOf("component", n)] : n \in 0..MaxIssues}
    /\ stylesAnalysis \in {[issues |-> IssuesOf("style", n)] : n \in 0..MaxIssues}
    /\ consistencyReport = NewReport
    /\ reportEnv \in ReportEnvs
    /\ reportPc = "components"

(* if (check_components) { ... issues.push(...componentsAnalysis.issues) } *)
ComponentsStep ==
    /\ reportPc = "components"
    /\ consistencyReport' =
           IF check_components
           THEN [consistencyReport EXCEPT
                    !.components = <<componentsAnalysis>>,
                    !.issues = @ \o componentsAnalysis.issues]
           ELSE consistencyReport
    /\ reportPc' = "styles"
    /\ UNCHANGED <<check_components, check_styles, componentsAnalysis,
                   stylesAnalysis, reportEnv>>
    /\ UNCHANGED notReportVars

(* if (check_styles) { ... issues.push(...stylesAnalysis.issues) } *)
StylesStep ==
    /\ reportPc = "styles"
    /\ consistencyReport' =
           IF check_styles
           THEN [consistencyReport EXCEPT
                    !.styles = <<stylesAnalysis>>,
                    !.issues = @ \o stylesAnalysis.issues]
           ELSE consistencyReport
    /\ reportPc' = "score"
    /\ UNCHANGED <<check_components, check_styles, componentsAnalysis,
                   stylesAnalysis, reportEnv>>
    /\ UNCHANGED notReportVars

(* consistency_score = this.calculateConsistencyScore(consistencyReport) *)
ScoreStep ==
    /\ reportPc = "score"
    /\ consistencyReport' =
           [consistencyReport EXCEPT
               !.consistency_score = calculateConsistencyScore(consistencyReport)]
    /\ reportPc' = "recommend"
    /\ UNCHANGED <<check_components, check_styles, componentsAnalysis,
                   stylesAnalysis, reportEnv>>
    /\ UNCHANGED notReportVars

(* recommendations = this.generateConsistencyRecommendations(consistencyReport) *)
RecommendStep ==
    /\ reportPc = "recommend"
    /\ consistencyReport' =
           [consistencyReport EXCEPT
               !.recommendations = generateConsistencyRecommendations(consistencyReport)]
    /\ reportPc' = "done"
    /\ UNCHANGED <<check_components, check_styles, componentsAnalysis,
                   stylesAnalysis, reportEnv>>
    /\ UNCHANGED notReportVars

ReportNext == ComponentsStep \/ StylesStep \/ ScoreStep \/ RecommendStep

ReportSpec == ReportInit /\ [][ReportNext]_vars

ReportDone == reportPc = "done"

(* The issues contributed by the enabled sub-analyses *)
ContributedIssues ==
    (IF check_components THEN Len(componentsAnalysis.issues) ELSE 0)
    + (IF check_styles THEN Len(stylesAnalysis.issues) ELSE 0)

C18_OneMoreIssue ==
    ReportDone =>
        LET score == consistencyReport.consistency_score
            more == [consistencyReport EXCEPT
                        !.issues = Append(@, [type |-> "style", severity |-> "low"])]
        IN  /\ score > 0 => calculateConsistencyScore(more) = score - 10
            /\ score = 0 => calculateConsistencyScore(more) = 0

C18_Witness ==
    /\ ReportDone
    /\ Len(consistencyReport.issues) = 10
    /\ consistencyReport.consistency_score = 0

-----------------------------------------------------------------------------
(* Two calls of createComponentMappings on inputs that differ in letter    *)
(* case only.  The first call runs to its return; then one name, of a      *)
(* design component or of a code component, is replaced by a name with the *)
(* same letters in another case and the function is called again.          *)

MaxCaseDesign == 1
MaxCaseCode == 2

Letters == Range(UpperChars) \cup Range(LowerChars)

(* A letter in both cases; any other character alone *)
CaseForms(c) ==
    IF c \in Letters THEN {d \in Letters : LowerChar(d) = LowerChar(c)} ELSE {c}

(* The names that differ from name in letter case only *)
Recasings(name) ==
    {n \in [1..Len(name) -> UNION {CaseForms(name[i]) : i \in 1..Len(name)}] :
        /\ n # name
        /\ \A i \in 1..Len(name) : n[i] \in CaseForms(name[i])}

(* What a call decided: per group, the design components in it (by id),   *)
(* the code components chosen or suggested (by place in the list) and the  *)
(* scores.                                                                 *)
Outcome ==
    [exact   |-> [k \in 1..Len(exact_matches) |->
                     [figma_id   |-> exact_matches[k].figma_id,
                      place      |-> exact_matches[k].code_component.path,
                      confidence |-> exact_matches[k].confidence]],
     similar |-> [k \in 1..Len(similar_matches) |->
                     [figma_id    |-> similar_matches[k].figma_id,
                      suggestions |->
                          [s \in 1..Len(similar_matches[k].suggestions) |->
                              [place      |-> similar_matches[k].suggestions[s].component.path,
                               similarity |-> similar_matches[k].suggestions[s].similarity]]]],
     missing |-> [k \in 1..Len(missing_in_code) |-> missing_in_code[k].figma_id]]

CaseInit ==
    /\ NotCaseIdle
    /\ figmaComponents \in
           {DesignEntries(f) : f \in SeqsUpTo(DesignNames \X Descriptions, MaxCaseDesign)}
    /\ codeComponents \in {CodeRecords(n) : n \in SeqsUpTo(CodeNames, MaxCaseCode)}
    /\ idx = 1
    /\ pc = "loop"
    /\ exact_matches = <<>>
    /\ similar_matches = <<>>
    /\ missing_in_code = <<>>
    /\ missing_in_figma = <<>>
    /\ round = 1
    /\ firstRun = [figmaComponents |-> <<>>, codeComponents |-> <<>>,
                   exact |-> <<>>, similar |-> <<>>, missing |-> <<>>]

(* Between the calls: the first outcome is kept and one name is recased *)
Recase ==
    /\ pc = "done"
    /\ round = 1
    /\ \/ \E i \in 1..Len(figmaComponents) :
             \E n \in Recasings(figmaComponents[i].name) :
                /\ figmaComponents' = [figmaComponents EXCEPT ![i].name = n]
                /\ UNCHANGED codeComponents
       \/ \E j \in 1..Len(codeComponents) :
             \E n \in Recasings(codeComponents[j].name) :
                /\ codeComponents' = [codeComponents EXCEPT ![j].name = n]
                /\ UNCHANGED figmaComponents
    /\ firstRun' = [figmaComponents |-> figmaComponents,
                    codeComponents  |-> codeComponents,
                    exact   |-> Outcome.exact,
                    similar |-> Outcome.similar,
                    missing |-> Outcome.missing]
    /\ round' = 2
    /\ idx' = 1
    /\ pc' = "loop"
    /\ exact_matches' = <<>>
    /\ similar_matches' = <<>>
    /\ missing_in_code' = <<>>
    /\ missing_in_figma' = <<>>
    /\ UNCHANGED notCaseVars

CaseNext == ForEachDesign \/ FindMissingInFigma \/ Recase

CaseSpec == CaseInit /\ [][CaseNext]_vars

SecondDone == round = 2 /\ pc = "done"

(* C16: matching is case-insensitive.  When a name of a design component   *)
(* or of a code component is replaced by the same letters in another case, *)
(* createComponentMappings puts every design component in the same group   *)
(* as before (exact, similar or missing in code), chooses and suggests the *)
(* code components at the same places of the list, in the same order, and  *)
(* gives the same similarity scores and confidence.                        *)
C16_CaseInsensitive ==
    SecondDone =>
        /\ Outcome.exact = firstRun.exact
        /\ Outcome.similar = firstRun.similar
        /\ Outcome.missing = firstRun.missing

(* The second call has returned after the name of a code component that    *)
(* is suggested with a score below 1 was recased.                          *)
C16_Witness ==
    /\ SecondDone
    /\ Len(similar_matches) > 0
    /\ \E s \in Range(similar_matches[1].suggestions) :
          /\ s.similarity.num < s.similarity.den
          /\ s.component.name # firstRun.codeComponents[s.component.path].name

-----------------------------------------------------------------------------
(* scanCodeComponents                                                      *)
(*                                                                         *)
(* What a path names is a node of the file tree:                           *)
(*   [kind |-> "missing"]                      nothing is there            *)
(*   [kind |-> "file", readable, content]      a regular file              *)
(*   [kind |-> "dir", listable, entries]       a directory; entries is the *)
(*                                             list of [item, node] that   *)
(*                                             readdirSync returns         *)
(*   [kind |-> "broken"]                       an entry that statSync      *)
(*                                             cannot inspect              *)
(*   [kind |-> "link", to]                     a symbolic link to the      *)
(*                                             directory at path to        *)
(* An item is the name of an entry, a sequence of characters; a path is    *)
(* the sequence of the items joined below the scanned directory.  The text *)
(* of a file is a sequence of tokens (words and marks between white        *)
(* space).  size, exports and props of a record are left out: they are     *)
(* computed from the text alone and decide nothing in the scan.            *)

MaxEntries == 3

(* The number of symbolic links the system follows in one path before it   *)
(* fails the call with ELOOP (40 on Linux), scaled down                    *)
SymlinkLimit == 2

Frameworks == {"react", "vue", "angular", "svelte", "vanilla", "solid"}

TsxExt == <<".", "t", "s", "x">>
JsxExt == <<".", "j", "s", "x">>
JsExt == <<".", "j", "s">>
TsExt == <<".", "t", "s">>
VueExt == <<".", "v", "u", "e">>
SvelteExt == <<".", "s", "v", "e", "l", "t", "e">>
ComponentTsExt == <<".", "c", "o", "m", "p", "o", "n", "e", "n", "t", ".", "t", "s">>
MdExt == <<".", "m", "d">>

extensionMap ==
    [react   |-> <<JsxExt, TsxExt, JsExt, TsExt>>,
     vue     |-> <<VueExt, JsExt, TsExt>>,
     angular |-> <<ComponentTsExt, TsExt>>,
     svelte  |-> <<SvelteExt, JsExt, TsExt>>,
     vanilla |-> <<JsExt, TsExt>>]

ExtensionsNoFallback(framework) ==
    IF framework \in {"react", "vue", "angular", "svelte", "vanilla"}
    THEN CASE framework = "react"   -> <<JsxExt, TsxExt, JsExt, TsExt>>
           [] framework = "vue"     -> <<VueExt, JsExt, TsExt>>
           [] framework = "angular" -> <<ComponentTsExt, TsExt>>
           [] framework = "svelte"  -> <<SvelteExt, JsExt, TsExt>>
           [] framework = "vanilla" -> <<JsExt, TsExt>>
    ELSE <<>>

(* extensionMap[framework] || ['.js', '.ts'] *)
getFileExtensions(framework) ==
    IF framework \in DOMAIN extensionMap
    THEN extensionMap[framework]
    ELSE <<JsExt, TsExt>>

(* String.prototype.endsWith *)
endsWith(item, ext) ==
    /\ Len(item) >= Len(ext)
    /\ SubSeq(item, Len(item) - Len(ext) + 1, Len(item)) = ext

(* fs.existsSync *)
existsSync(node) == node.kind # "missing"

(* fs.readdirSync: throws unless the path names a directory open to listing *)
ReaddirIgnoresPermissions(node) ==
    [threw |-> node.kind # "dir",
     items |-> IF node.kind = "dir" THEN node.entries ELSE <<>>]

readdirSync(node) ==
    IF node.kind = "dir" /\ node.listable
    THEN [threw |-> FALSE, items |-> node.entries]
    ELSE [threw |-> TRUE, items |-> <<>>]

(* fs.statSync: follows the entry; throws when there is nothing to inspect *)
statSync(node) ==
    [threw |-> node.kind \in {"broken", "missing"},
     isDirectory |-> node.kind = "dir"]

(* fs.readFileSync *)
readFileSync(node) ==
    IF node.kind = "file" /\ node.readable
    THEN [threw |-> FALSE, content |-> node.content]
    ELSE [threw |-> TRUE, content |-> <<>>]

(* What a path below the scanned directory names; links on the way are    *)
(* followed                                                                *)
RECURSIVE NodeAt(_, _)
NodeAt(node, path) ==
    IF path = <<>> THEN node
    ELSE IF node.kind # "dir" THEN [kind |-> "missing"]
    ELSE LET S == {k \in 1..Len(node.entries) : node.entries[k].item = path[1]}
         IN  IF S = {} THEN [kind |-> "missing"]
             ELSE LET entry == node.entries[CHOOSE k \in S : TRUE].node
                  IN  NodeAt(IF entry.kind = "link"
                             THEN NodeAt(scanDirectory, entry.to)
                             ELSE entry,
                             Tail(path))

(* The number of symbolic links among the items of a path *)
RECURSIVE LinkCount(_, _)
LinkCount(node, path) ==
    IF path = <<>> \/ node.kind # "dir" THEN 0
    ELSE LET S == {k \in 1..Len(node.entries) : node.entries[k].item = path[1]}
         IN  IF S = {} THEN 0
             ELSE LET entry == node.entries[CHOOSE k \in S : TRUE].node
                  IN  IF entry.kind = "link"
                      THEN 1 + LinkCount(NodeAt(scanDirectory, entry.to), Tail(path))
                      ELSE LinkCount(entry, Tail(path))

(* What the system call finds at fullPath, whose last item is entry: the   *)
(* entry itself, the target of a link, or nothing to inspect when the path *)
(* holds more links than the system follows                                *)
Resolve(entry, fullPath) ==
    IF entry.kind # "link" THEN entry
    ELSE IF LinkCount(scanDirectory, fullPath) > SymlinkLimit THEN [kind |-> "broken"]
    ELSE NodeAt(scanDirectory, entry.to)

RECURSIVE getAllFiles(_, _, _)
RECURSIVE ForEachItem(_, _, _, _, _)

(* items.forEach(...) from item k on; acc is files so far.  A throw of     *)
(* statSync leaves the forEach: what was pushed before stays in files.     *)
ForEachItem(items, k, dir, extensions, acc) ==
    IF k > Len(items) THEN acc
    ELSE LET item == items[k].item
             fullPath == dir \o <<item>>
             found == Resolve(items[k].node, fullPath)
             stat == statSync(found)
         IN  IF stat.threw THEN acc
             ELSE IF stat.isDirectory
             THEN ForEachItem(items, k + 1, dir, extensions,
                      acc \o getAllFiles(found, fullPath, extensions))
             ELSE IF \E e \in 1..Len(extensions) : endsWith(item, extensions[e])
             THEN ForEachItem(items, k + 1, dir, extensions, acc \o <<fullPath>>)
             ELSE ForEachItem(items, k + 1, dir, extensions, acc)

(* getAllFiles(dir, extensions): node is what dir names.  The catch        *)
(* swallows the throw of readdirSync and of statSync alike.                *)
getAllFiles(node, dir, extensions) ==
    LET listing == readdirSync(node)
    IN  IF listing.threw THEN <<>>
        ELSE ForEachItem(listing.items, 1, dir, extensions, <<>>)

(* The tokens that are not made of word characters only *)
Marks == {"(", ")", "{", "}", "=", "@Component", "<template>", "<script>",
          "<style>", "<div>"}
IsWord(t) == t \notin Marks

(* The token at place i, none beyond the end *)
TokenAt(content, i) == IF i <= Len(content) THEN content[i] ELSE ""

Declares(content, i) ==
    /\ TokenAt(content, i) \in {"function", "const", "class"}
    /\ i + 1 <= Len(content)
    /\ IsWord(content[i + 1])

(* The detection patterns of extractComponentInfo, on tokens *)
ReactPattern(content) ==
    \E i \in 1..Len(content) :
        \/ /\ content[i] = "export"
           /\ \/ Declares(content, i + 1)
              \/ TokenAt(content, i + 1) = "default" /\ Declares(content, i + 2)
        \/ /\ content[i] = "function"
           /\ i + 1 <= Len(content)
           /\ IsWord(content[i + 1])
           /\ TokenAt(content, i + 2) = "("

VuePattern(content) ==
    \E i \in 1..Len(content) :
        \/ content[i] = "<template>"
        \/ /\ content[i] = "export"
           /\ TokenAt(content, i + 1) = "default"
           /\ TokenAt(content, i + 2) = "{"

AngularPattern(content) ==
    \E i \in 1..Len(content) :
        content[i] = "@Component" /\ TokenAt(content, i + 1) = "("

SveltePattern(content) ==
    \E i \in 1..Len(content) :
        content[i] \in {"<script>", "<style>", "<template>", "<div>"}

VanillaPattern(content) ==
    \E i \in 1..Len(content) :
        /\ content[i] \in {"class", "function"}
        /\ i + 1 <= Len(content)
        /\ IsWord(content[i + 1])

(* patterns[framework]: whether there is a pattern, and whether it tests   *)
(* true on the text                                                        *)
HasPattern(framework) ==
    framework \in {"react", "vue", "angular", "svelte", "vanilla"}

PatternTest(framework, content) ==
    CASE framework = "react"   -> ReactPattern(content)
      [] framework = "vue"     -> VuePattern(content)
      [] framework = "angular" -> AngularPattern(content)
      [] framework = "svelte"  -> SveltePattern(content)
      [] framework = "vanilla" -> VanillaPattern(content)
      [] OTHER                 -> FALSE

(* path.extname of an item: from the last "." on, empty when there is none *)
(* or when the only one is the first character                             *)
extname(item) ==
    LET dots == {i \in 2..Len(item) : item[i] = "."}
    IN  IF dots = {} THEN <<>>
        ELSE SubSeq(item, CHOOSE i \in dots : \A j \in dots : i >= j, Len(item))

(* path.basename(filePath, path.extname(filePath)) *)
basename(filePath) ==
    LET item == filePath[Len(filePath)]
    IN  SubSeq(item, 1, Len(item) - Len(extname(item)))

ExtractWithoutTest(filePath, content, framework) ==
    <<[name |-> SubSeq(filePath[Len(filePath)], 1, 1), path |-> filePath,
       framework |-> framework]>>

(* extractComponentInfo: <<>> for null, else the one record *)
extractComponentInfo(filePath, content, framework) ==
    IF ~HasPattern(framework) \/ ~PatternTest(framework, content)
    THEN <<>>
    ELSE <<[name |-> basename(filePath), path |-> filePath,
            framework |-> framework]>>

(* The file trees of the model *)
ReactText == <<"export", "const", "W", "=", "1">>
ClassText == <<"class", "W", "{", "}">>
TemplateText == <<"<template>">>
AngularText == <<"@Component", "(", ")", "export", "class", "W", "{", "}">>
PlainText == <<"x">>

File(content) == [kind |-> "file", readable |-> TRUE, content |-> content]
Unreadable == [kind |-> "file", readable |-> FALSE, content |-> <<>>]
Broken == [kind |-> "broken"]

(* An entry before it gets its name: the ending of the name and the node *)
FileEntries ==
    {[ext |-> TsxExt, node |-> File(ReactText)],
     [ext |-> TsExt, node |-> File(ClassText)],
     [ext |-> VueExt, node |-> File(TemplateText)],
     [ext |-> ComponentTsExt, node |-> File(AngularText)],
     [ext |-> JsExt, node |-> File(PlainText)],
     [ext |-> JsxExt, node |-> File(ClassText)],
     [ext |-> SvelteExt, node |-> File(TemplateText)],
     [ext |-> MdExt, node |-> File(ReactText)],
     [ext |-> TsExt, node |-> Unreadable],
     [ext |-> <<>>, node |-> Broken]}

(* The entries named by their place: a.tsx, b.ts, ... *)
Named(entries) ==
    [k \in 1..Len(entries) |->
        [item |-> <<LowerChars[k]>> \o entries[k].ext, node |-> entries[k].node]]

Dir(listable, entries) ==
    [kind |-> "dir", listable |-> listable, entries |-> Named(entries)]

SubListings ==
    {<<>>,
     <<[ext |-> TsxExt, node |-> File(ReactText)]>>,
     <<[ext |-> <<>>, node |-> Broken], [ext |-> TsExt, node |-> File(ClassText)]>>}

SubDirEntries ==
    {[ext |-> <<>>, node |-> Dir(TRUE, l)] : l \in SubListings}
    \cup {[ext |-> <<>>, node |-> Dir(FALSE, <<[ext |-> TsxExt, node |-> File(ReactText)]>>)]}
    \cup {[ext |-> <<>>, node |->
              Dir(TRUE, <<[ext |-> <<>>, node |->
                  Dir(TRUE, <<[ext |-> TsExt, node |-> File(ClassText)]>>)]>>)]}

(* What the scanned path names: nothing, a regular file, a directory that  *)
(* cannot be listed (what it holds is never seen) or one that can           *)
RootNodes ==
    {[kind |-> "missing"], File(ReactText)}
    \cup {Dir(FALSE, <<e>>) : e \in FileEntries}
    \cup {Dir(TRUE, l) : l \in SeqsUpTo(FileEntries \cup SubDirEntries, MaxEntries)}

ScanInit ==
    /\ NotScanIdle
    /\ scanDirectory \in RootNodes
    /\ scanFramework \in Frameworks
    /\ files = <<>>
    /\ fileIdx = 1
    /\ components = <<>>
    /\ scanPc = "exists"

(* if (!fs.existsSync(directory)) return [] *)
ExistsStep ==
    /\ scanPc = "exists"
    /\ scanPc' = IF existsSync(scanDirectory) THEN "list" ELSE "returned"
    /\ UNCHANGED <<scanDirectory, scanFramework, files, fileIdx, components>>
    /\ UNCHANGED notScanVars

(* const files = this.getAllFiles(directory, this.getFileExtensions(framework)) *)
ListStep ==
    /\ scanPc = "list"
    /\ files' = getAllFiles(scanDirectory, <<>>, getFileExtensions(scanFramework))
    /\ fileIdx' = 1
    /\ scanPc' = "read"
    /\ UNCHANGED <<scanDirectory, scanFramework, components>>
    /\ UNCHANGED notScanVars

(* One call of the files.forEach callback; its catch skips the file *)
ReadStep ==
    /\ scanPc = "read"
    /\ fileIdx <= Len(files)
    /\ LET file == files[fileIdx]
           read == readFileSync(NodeAt(scanDirectory, file))
       IN  components' =
               IF read.threw THEN components
               ELSE components \o extractComponentInfo(file, read.content, scanFramework)
    /\ fileIdx' = fileIdx + 1
    /\ UNCHANGED <<scanDirectory, scanFramework, files, scanPc>>
    /\ UNCHANGED notScanVars

(* return components *)
ReturnStep ==
    /\ scanPc = "read"
    /\ fileIdx > Len(files)
    /\ scanPc' = "returned"
    /\ UNCHANGED <<scanDirectory, scanFramework, files, fileIdx, components>>
    /\ UNCHANGED notScanVars

ScanNext == ExistsStep \/ ListStep \/ ReadStep \/ ReturnStep

ScanSpec == ScanInit /\ [][ScanNext]_vars

Returned == scanPc = "returned"

(* The scanned directory is missing, or is there and cannot be listed *)
RootMissing == scanDirectory.kind = "missing"
RootClosed == scanDirectory.kind = "dir" /\ ~scanDirectory.listable

-----------------------------------------------------------------------------
(* Vocabulary of the properties of the walk *)

(* getAllFiles has returned to scanCodeComponents *)
Listed == scanPc \in {"read", "returned"}

RootOpen == scanDirectory.kind = "dir" /\ scanDirectory.listable

RootEntries == IF scanDirectory.kind = "dir" THEN scanDirectory.entries ELSE <<>>

(* The item ends with an extension of the framework's row of the table *)
Matching(item) ==
    \E x \in 1..Len(getFileExtensions(scanFramework)) :
        endsWith(item, getFileExtensions(scanFramework)[x])

ClosedDir(node) == node.kind = "dir" /\ ~node.listable

(* No entry listed before place k fails its inspection *)
InspectableBefore(entries, k) ==
    \A j \in 1..(k - 1) : entries[j].node.kind # "broken"

TableOf(framework) ==
    CASE framework = "react"   -> {JsxExt, TsxExt, JsExt, TsExt}
      [] framework = "vue"     -> {VueExt, JsExt, TsExt}
      [] framework = "angular" -> {ComponentTsExt, TsExt}
      [] framework = "svelte"  -> {SvelteExt, JsExt, TsExt}
      [] framework = "vanilla" -> {JsExt, TsExt}
      [] OTHER                 -> {JsExt, TsExt}

(* Every directory of the tree can be listed, every entry inspected *)
RECURSIVE ReadableTree(_)
ReadableTree(node) ==
    /\ node.kind = "dir"
    /\ node.listable
    /\ \A k \in 1..Len(node.entries) :
          \/ node.entries[k].node.kind = "file"
          \/ ReadableTree(node.entries[k].node)

(* The paths of the files at any depth below a directory *)
RECURSIVE FilesBelow(_, _)
FilesBelow(node, dir) ==
    UNION {LET e == node.entries[k]
           IN  IF e.node.kind = "file" THEN {dir \o <<e.item>>}
               ELSE IF e.node.kind = "dir" THEN FilesBelow(e.node, dir \o <<e.item>>)
               ELSE {} : k \in 1..Len(node.entries)}

-----------------------------------------------------------------------------
(* The scan of a tree that holds symbolic links back to the scanned        *)
(* directory                                                               *)

MaxLinkEntries == 2

LinkToRoot == [ext |-> <<>>, node |-> [kind |-> "link", to |-> <<>>]]

LinkEntries ==
    {LinkToRoot,
     [ext |-> <<>>, node |-> Dir(TRUE, <<LinkToRoot>>)],
     [ext |-> <<>>, node |->
         Dir(TRUE, <<[ext |-> TsExt, node |-> File(ClassText)], LinkToRoot>>)]}

LinkInit ==
    /\ NotScanIdle
    /\ scanDirectory \in
           {Dir(TRUE, l) : l \in SeqsUpTo(FileEntries \cup LinkEntries, MaxLinkEntries)}
    /\ scanFramework \in Frameworks
    /\ files = <<>>
    /\ fileIdx = 1
    /\ components = <<>>
    /\ scanPc = "exists"

LinkSpec == LinkInit /\ [][ScanNext]_vars

(* The path with every link on it replaced by where the link points *)
RECURSIVE RealPath(_, _, _)
RealPath(node, done, path) ==
    IF path = <<>> \/ node.kind # "dir" THEN done \o path
    ELSE LET S == {k \in 1..Len(node.entries) : node.entries[k].item = path[1]}
         IN  IF S = {} THEN done \o path
             ELSE LET entry == node.entries[CHOOSE k \in S : TRUE].node
                  IN  IF entry.kind = "link"
                      THEN RealPath(NodeAt(scanDirectory, entry.to), entry.to, Tail(path))
                      ELSE RealPath(entry, done \o <<path[1]>>, Tail(path))

(* C23: the traversal never re-enters a directory it has visited, so when  *)
(* getAllFiles has returned every source file it reached is in the list    *)
(* once: no two listed paths name the same real file.                      *)
C23_VisitedOnce ==
    Listed =>
        \A i, j \in 1..Len(files) :
            RealPath(scanDirectory, <<>>, files[i]) = RealPath(scanDirectory, <<>>, files[j])
            => i = j

-----------------------------------------------------------------------------
(* The file can be read and its text passes the test of the framework's    *)
(* detection pattern                                                       *)
Yields(file) ==
    LET node == NodeAt(scanDirectory, file)
    IN  /\ node.kind = "file"
        /\ node.readable
        /\ HasPattern(scanFramework)
        /\ PatternTest(scanFramework, node.content)

(* The files the forEach of scanCodeComponents has gone through *)
FilesRead == SubSeq(files, 1, fileIdx - 1)

(* C24: a listed file that cannot be read, or whose text does not pass the *)
(* framework's detection pattern, yields no record and no error (the       *)
(* forEach goes through every listed file before the return) and stops no  *)
(* other file from yielding its record; every file that is readable and    *)
(* passes yields exactly one record, and the records are in the order in   *)
(* which the files were listed.                                            *)
C24_OneRecordPerDetectedFile ==
    Listed =>
        /\ LET yielding == SelectSeq(FilesRead, Yields)
           IN  /\ Len(components) = Len(yielding)
               /\ \A i \in 1..Len(yielding) :
                     /\ components[i].path = yielding[i]
                     /\ components[i].framework = scanFramework
        /\ Returned => fileIdx = Len(files) + 1

(* The scan has returned after an unreadable file, then a file whose text  *)
(* the pattern does not detect, then a file that yields the only record.   *)
C24_Witness ==
    /\ Returned
    /\ Len(files) = 3
    /\ NodeAt(scanDirectory, files[1]).kind = "file"
    /\ ~NodeAt(scanDirectory, files[1]).readable
    /\ NodeAt(scanDirectory, files[2]).readable
    /\ ~Yields(files[2])
    /\ Yields(files[3])
    /\ Len(components) = 1

-----------------------------------------------------------------------------
(* Requests map_figma_to_code_components in flight together.  A request    *)
(* waits at the two awaits of makeRequest (fetch, response.json); what     *)
(* follows the await, the scan and createComponentMappings, is synchronous *)
(* and runs to its return before any other continuation starts.  The       *)
(* variables of the mapping are the locals of the call that runs.  Before  *)
(* the requests are sent, each call is made once alone on the same inputs. *)

MaxRuns == 2

Runs == 1..MaxRuns

(* What a request works on: the components of the response and the result *)
(* of the scan of its code directory                                       *)
RequestInputs ==
    {[figma |-> DesignEntries(<<<<<<"a", "b">>, <<"d">>>>>>),
      code  |-> CodeRecords(<<<<"a">>, <<"a", "b", "b">>>>)],
     [figma |-> DesignEntries(<<<<<<"A">>, <<>>>>>>),
      code  |-> CodeRecords(<<<<"a">>, <<"A">>>>)],
     [figma |-> DesignEntries(<<<<<<"a", "b">>, <<>>>>>>),
      code  |-> <<>>],
     [figma |-> <<>>,
      code  |-> CodeRecords(<<<<"a", "b">>>>)]}

(* A collection of mappings.* carried over from the call before *)
KeptFromLastCall(previous) == previous

(* const mappings = { exact_matches: [], ... }: every call starts from its *)
(* own empty collections                                                   *)
NewCollection(previous) == <<>>

(* The locals of a call of createComponentMappings on the inputs of r *)
EnterCall(r) ==
    /\ figmaComponents' = request[r].figma
    /\ codeComponents' = request[r].code
    /\ idx' = 1
    /\ pc' = "loop"
    /\ exact_matches' = NewCollection(exact_matches)
    /\ similar_matches' = NewCollection(similar_matches)
    /\ missing_in_code' = NewCollection(missing_in_code)
    /\ missing_in_figma' = NewCollection(missing_in_figma)

(* return mappings *)
Mappings ==
    [exact_matches    |-> exact_matches,
     similar_matches  |-> similar_matches,
     missing_in_code  |-> missing_in_code,
     missing_in_figma |-> missing_in_figma]

RequestInit ==
    /\ NotRequestIdle
    /\ MapIdle
    /\ request \in [Runs -> RequestInputs]
    /\ runPc = [r \in Runs |-> "start"]
    /\ result = [r \in Runs |-> <<>>]
    /\ alone = [r \in Runs |-> <<>>]
    /\ active = 0

(* The call of request r made alone, before any request is sent *)
AloneCall(r) ==
    /\ active = 0
    /\ alone[r] = <<>>
    /\ \A q \in Runs : q < r => alone[q] # <<>>
    /\ EnterCall(r)
    /\ active' = r
    /\ UNCHANGED <<request, runPc, result, alone>>
    /\ UNCHANGED notRequestVars

AloneReturn(r) ==
    /\ active = r
    /\ alone[r] = <<>>
    /\ pc = "done"
    /\ alone' = [alone EXCEPT ![r] = <<Mappings>>]
    /\ active' = 0
    /\ pc' = "idle"
    /\ UNCHANGED <<figmaComponents, codeComponents, idx, exact_matches,
                   similar_matches, missing_in_code, missing_in_figma>>
    /\ UNCHANGED <<request, runPc, result>>
    /\ UNCHANGED notRequestVars

(* The request arrives: the handler runs up to await fetch(...) *)
SendRequest(r) ==
    /\ active = 0
    /\ \A q \in Runs : alone[q] # <<>>
    /\ runPc[r] = "start"
    /\ runPc' = [runPc EXCEPT ![r] = "fetch"]
    /\ UNCHANGED <<request, result, alone, active>>
    /\ UNCHANGED mapVars
    /\ UNCHANGED notRequestVars

(* fetch resolves: makeRequest goes on to return response.json() *)
FetchResolves(r) ==
    /\ active = 0
    /\ runPc[r] = "fetch"
    /\ runPc' = [runPc EXCEPT ![r] = "json"]
    /\ UNCHANGED <<request, result, alone, active>>
    /\ UNCHANGED mapVars
    /\ UNCHANGED notRequestVars

(* The response is parsed: the handler goes on after its await, scans and *)
(* calls createComponentMappings                                           *)
ResumeHandler(r) ==
    /\ active = 0
    /\ runPc[r] = "json"
    /\ EnterCall(r)
    /\ active' = r
    /\ runPc' = [runPc EXCEPT ![r] = "running"]
    /\ UNCHANGED <<request, result, alone>>
    /\ UNCHANGED notRequestVars

(* The handler returns its result *)
ReturnResult(r) ==
    /\ active = r
    /\ runPc[r] = "running"
    /\ pc = "done"
    /\ result' = [result EXCEPT ![r] = <<Mappings>>]
    /\ runPc' = [runPc EXCEPT ![r] = "returned"]
    /\ active' = 0
    /\ pc' = "idle"
    /\ UNCHANGED <<figmaComponents, codeComponents, idx, exact_matches,
                   similar_matches, missing_in_code, missing_in_figma>>
    /\ UNCHANGED <<request, alone>>
    /\ UNCHANGED notRequestVars

RequestNext ==
    \/ ForEachDesign
    \/ FindMissingInFigma
    \/ \E r \in Runs : AloneCall(r)
    \/ \E r \in Runs : AloneReturn(r)
    \/ \E r \in Runs : SendRequest(r)
    \/ \E r \in Runs : FetchResolves(r)
    \/ \E r \in Runs : ResumeHandler(r)
    \/ \E r \in Runs : ReturnResult(r)

RequestSpec == RequestInit /\ [][RequestNext]_vars

-----------------------------------------------------------------------------
-----------------------------------------------------------------------------
(* C27: an entry that cannot be inspected (statSync fails on it) is        *)
(* skipped and the listing of its directory continues: every matching file *)
(* among the remaining entries of the directory is returned by             *)
(* getAllFiles.                                                            *)
C27_UninspectableEntrySkipped ==
    (Listed /\ RootOpen) =>
        \A k \in DOMAIN RootEntries :
            RootEntries[k].node.kind = "broken" =>
                \A j \in DOMAIN RootEntries :
                    /\ j > k
                    /\ RootEntries[j].node.kind = "file"
                    /\ Matching(RootEntries[j].item)
                    => <<RootEntries[j].item>> \in Range(files)

-----------------------------------------------------------------------------
(* C28: when createComponentMappings has returned, no code component whose *)
(* lower-cased name is the lower-cased name of some design component is in *)
(* missing_in_figma, also when several code components have names that     *)
(* differ in letter case only.                                             *)
C28_MatchedNeverMissing ==
    Done =>
        \A j \in Codes :
            (\E i \in Designs : SameLowerName(i, j)) =>
                \A m \in Range(missing_in_figma) : m.path # codeComponents[j].path

-----------------------------------------------------------------------------
(* analyzeDesignCodeConsistency with the sub-analyses as they are shipped  *)

ComponentCheckReadsDirectory(fileKey, codeDirectory) ==
    [total_components |-> 0, consistent_components |-> 0,
     issues |-> IF codeDirectory = "missing" THEN IssuesOf("component", 1) ELSE <<>>]

(* checkComponentConsistency: a placeholder that looks at nothing *)
checkComponentConsistency(fileKey, codeDirectory) ==
    [total_components |-> 0, consistent_components |-> 0, issues |-> <<>>]

(* checkStyleConsistency: a placeholder that looks at nothing *)
checkStyleConsistency(fileKey, codeDirectory) ==
    [total_styles |-> 0, consistent_styles |-> 0, issues |-> <<>>]

ShippedInit ==
    /\ NotReportIdle
    /\ check_components \in BOOLEAN
    /\ check_styles \in BOOLEAN
    /\ reportEnv \in ReportEnvs
    /\ componentsAnalysis =
           checkComponentConsistency(reportEnv.file_key, reportEnv.code_directory)
    /\ stylesAnalysis =
           checkStyleConsistency(reportEnv.file_key, reportEnv.code_directory)
    /\ consistencyReport = NewReport
    /\ reportPc = "components"

ShippedSpec == ShippedInit /\ [][ReportNext]_vars

-----------------------------------------------------------------------------
=============================================================================
